---------------------------- MODULE Spec2Model ----------------------------
(***************************************************************************)
(* Client-side workflow of the AIris comparison front end                  *)
(* (frontend/src/App.tsx and the FlightComparison component).              *)
(*                                                                         *)
(* Every React event handler is one action.  An `await` splits a handler   *)
(* in two: the part up to the request (the action named after the          *)
(* handler) and the continuation run when the request settles (the         *)
(* ...Resolved / ...Rejected actions).  Requests in flight are kept, per   *)
(* call site, in a sequence in issue order; any of them may settle next.   *)
(* Strings the code inspects are sequences of one-character strings.       *)
(*                                                                         *)
(* An action constrains the variables of its own component; the            *)
(* next-state relations at the end add UNCHANGED for the other components. *)
(***************************************************************************)
EXTENDS Integers, Sequences, FiniteSets, TLC

(***************************************************************************)
(* Bounds of the model.                                                    *)
(***************************************************************************)
MaxInFlight == 2     \* most requests of one component in flight at once
MaxRoutes == 2       \* most tracked routes the backend ever creates

(***************************************************************************)
(* Text helpers.                                                           *)
(***************************************************************************)
EmptyText == << >>
Texts == {EmptyText, <<"a">>, <<"a", "a">>}   \* values typed into a text field

RemoveAt(s, i) == SubSeq(s, 1, i - 1) \o SubSeq(s, i + 1, Len(s))

(***************************************************************************)
(* Notices (the snackbar state of both components).                        *)
(***************************************************************************)
NoSnackbar == [open |-> FALSE, message |-> "", severity |-> "success"]
ErrorNotice(m) == [open |-> TRUE, message |-> m, severity |-> "error"]
SuccessNotice(m) == [open |-> TRUE, message |-> m, severity |-> "success"]

VARIABLES
    \* App (cab tab)
    pickup, dropoff, passengerCount, estimates, loading,
    pickupOptions, dropoffOptions, snackbar, errors,
    \* requests of the cab tab in flight
    compareCalls, pickupCalls, dropoffCalls,
    \* FlightComparison
    origin, destination, departureDate, flightEstimates, flightLoading,
    cityOptions, flightSnackbar,
    \* requests of FlightComparison in flight
    flightCalls, cityCalls,
    \* App (route tracking)
    phoneNumber, targetPrice, trackedRoutes, showTrackedRoutes,
    \* requests of the route tracking in flight
    trackCalls, listCalls, deleteCalls,
    \* the backend's table of tracked routes
    routes, nextRouteId,
    \* history: the latest autocomplete request issued per field; the latest
    \* list request, what triggered each list request in flight, and the ids
    \* whose delete and refresh have both completed
    latest, latestList, listCause, removed,
    \* the window: the assignments made to window.location.href (with the time
    \* and, as history, the timer of the click they belong to), the pending
    \* setTimeout timers, the next timer id and the clock in milliseconds
    navigations, timers, nextTimer, now

cabVars == <<pickup, dropoff, passengerCount, estimates, loading,
             pickupOptions, dropoffOptions, snackbar, errors,
             compareCalls, pickupCalls, dropoffCalls>>
flightVars == <<origin, destination, departureDate, flightEstimates, flightLoading,
                cityOptions, flightSnackbar, flightCalls, cityCalls>>
trackVars == <<phoneNumber, targetPrice, trackedRoutes, showTrackedRoutes,
               trackCalls, listCalls, deleteCalls, routes, nextRouteId>>
histVars == <<latest, latestList, listCause, removed>>
\* what of the cab tab the route tracking neither reads nor writes
quoteVars == <<pickup, dropoff, loading, pickupOptions, dropoffOptions, errors,
               compareCalls, pickupCalls, dropoffCalls>>
navVars == <<navigations, timers, nextTimer, now>>
vars == <<cabVars, flightVars, trackVars, histVars, navVars>>

(***************************************************************************)
(* The pricing backend, a black box behind the HTTP interface.             *)
(***************************************************************************)
\* GET /cities/autocomplete?query=q: the known places that start with q.
IsPrefix(q, c) == Len(q) <= Len(c) /\ SubSeq(c, 1, Len(q)) = q
Cities == << <<"a">>, <<"a", "a">>, <<"a", "b">> >>
AutocompleteResult(q) == SelectSeq(Cities, LAMBDA c : IsPrefix(q, c))

\* POST /compare-prices: an ordered sequence of estimates, possibly empty.
AppUrl(service) == <<"app", service>>
WebUrl(service) == <<"web", service>>
Quote(service, price, body) ==
    [service |-> service, price_estimate |-> price,
     pickup |-> body.pickup_address, dropoff |-> body.dropoff_address,
     app_url |-> AppUrl(service), web_url |-> WebUrl(service)]
UberPrice == <<"$", "2", "3", ".", "5", "0">>
LyftPrice == <<"$", "9">>
CompareResults(body) ==
    { << >>,
      <<Quote("uber", UberPrice, body)>>,
      <<Quote("lyft", LyftPrice, body), Quote("uber", UberPrice, body)>> }

\* POST /compare-flights
FlightResults(body) ==
    { << >>, <<[airline |-> "AA", price |-> 100, stops |-> 0]>> }

(***************************************************************************)
(* App: state after the first render (useState initial values).            *)
(***************************************************************************)
NoErrors == << >>

InitCab ==
    /\ pickup = EmptyText
    /\ dropoff = EmptyText
    /\ passengerCount = 1
    /\ estimates = << >>
    /\ loading = FALSE
    /\ pickupOptions = << >>
    /\ dropoffOptions = << >>
    /\ snackbar = NoSnackbar
    /\ errors = NoErrors
    /\ compareCalls = << >>
    /\ pickupCalls = << >>
    /\ dropoffCalls = << >>

\* requests of the cab tab in flight
CabInFlight == Len(compareCalls) + Len(pickupCalls) + Len(dropoffCalls)

(***************************************************************************)
(* handleSnackbarClose (also run by the 3000 ms auto-hide).                *)
(***************************************************************************)
handleSnackbarClose ==
    /\ snackbar.open
    /\ snackbar' = [snackbar EXCEPT !.open = FALSE]
    /\ UNCHANGED <<pickup, dropoff, passengerCount, estimates, loading,
                   pickupOptions, dropoffOptions, errors,
                   compareCalls, pickupCalls, dropoffCalls>>

(***************************************************************************)
(* Pickup / dropoff Autocomplete onInputChange.                            *)
(***************************************************************************)
CabMinQueryLen == 1

pickupInputChange(newValue) ==
    /\ pickup' = newValue
    /\ IF Len(newValue) >= CabMinQueryLen
       THEN /\ CabInFlight < MaxInFlight
            /\ pickupCalls' = Append(pickupCalls, newValue)
       ELSE UNCHANGED pickupCalls
    /\ UNCHANGED <<dropoff, passengerCount, estimates, loading, pickupOptions,
                   dropoffOptions, snackbar, errors, compareCalls, dropoffCalls>>

pickupSuggestResolved(i) ==
    /\ i \in DOMAIN pickupCalls
    /\ pickupOptions' = AutocompleteResult(pickupCalls[i])
    /\ pickupCalls' = RemoveAt(pickupCalls, i)
    /\ UNCHANGED <<pickup, dropoff, passengerCount, estimates, loading,
                   dropoffOptions, snackbar, errors, compareCalls, dropoffCalls>>

\* catch: console.error only
pickupSuggestRejected(i) ==
    /\ i \in DOMAIN pickupCalls
    /\ pickupCalls' = RemoveAt(pickupCalls, i)
    /\ UNCHANGED <<pickup, dropoff, passengerCount, estimates, loading, pickupOptions,
                   dropoffOptions, snackbar, errors, compareCalls, dropoffCalls>>

dropoffInputChange(newValue) ==
    /\ dropoff' = newValue
    /\ IF Len(newValue) >= CabMinQueryLen
       THEN /\ CabInFlight < MaxInFlight
            /\ dropoffCalls' = Append(dropoffCalls, newValue)
       ELSE UNCHANGED dropoffCalls
    /\ UNCHANGED <<pickup, passengerCount, estimates, loading, pickupOptions,
                   dropoffOptions, snackbar, errors, compareCalls, pickupCalls>>

dropoffSuggestResolved(i) ==
    /\ i \in DOMAIN dropoffCalls
    /\ dropoffOptions' = AutocompleteResult(dropoffCalls[i])
    /\ dropoffCalls' = RemoveAt(dropoffCalls, i)
    /\ UNCHANGED <<pickup, dropoff, passengerCount, estimates, loading,
                   pickupOptions, snackbar, errors, compareCalls, pickupCalls>>

\* catch: console.error only
dropoffSuggestRejected(i) ==
    /\ i \in DOMAIN dropoffCalls
    /\ dropoffCalls' = RemoveAt(dropoffCalls, i)
    /\ UNCHANGED <<pickup, dropoff, passengerCount, estimates, loading, pickupOptions,
                   dropoffOptions, snackbar, errors, compareCalls, pickupCalls>>

(***************************************************************************)
(* comparePrices (the Compare Prices button, disabled while loading).      *)
(***************************************************************************)
PickupRequired == "Please enter a pickup location"
DropoffRequired == "Please enter a dropoff location"
CompareFailed == "Failed to fetch price estimates"

\* setErrors({}) followed by the functional update the handler queues
ValidateCompare(p, d) ==
    IF p = EmptyText THEN ("pickup" :> PickupRequired)
    ELSE IF d = EmptyText THEN ("dropoff" :> DropoffRequired)
    ELSE NoErrors

CompareBody ==
    [pickup_address |-> pickup, dropoff_address |-> dropoff,
     passenger_count |-> passengerCount]

\* mutant of comparePrices: the validation records the error but does not return
comparePrices_NoReturn ==
    /\ ~loading
    /\ errors' = ValidateCompare(pickup, dropoff)
    /\ CabInFlight < MaxInFlight
    /\ loading' = TRUE
    /\ compareCalls' = Append(compareCalls, [body |-> CompareBody, held |-> estimates])
    /\ UNCHANGED <<pickup, dropoff, passengerCount, estimates, pickupOptions,
                   dropoffOptions, snackbar, pickupCalls, dropoffCalls>>

\* comparePrices behind a Compare Prices button that stays enabled while loading
comparePrices_NotDisabled ==
    /\ errors' = ValidateCompare(pickup, dropoff)
    /\ IF ValidateCompare(pickup, dropoff) # NoErrors
       THEN UNCHANGED <<loading, compareCalls>>
       ELSE /\ CabInFlight < MaxInFlight
            /\ loading' = TRUE
            /\ compareCalls' =
                   Append(compareCalls, [body |-> CompareBody, held |-> estimates])
    /\ UNCHANGED <<pickup, dropoff, passengerCount, estimates, pickupOptions,
                   dropoffOptions, snackbar, pickupCalls, dropoffCalls>>

\* `held` is history: the estimates on display when the request was sent
comparePrices ==
    /\ ~loading
    /\ errors' = ValidateCompare(pickup, dropoff)
    /\ IF ValidateCompare(pickup, dropoff) # NoErrors
       THEN UNCHANGED <<loading, compareCalls>>
       ELSE /\ CabInFlight < MaxInFlight
            /\ loading' = TRUE
            /\ compareCalls' =
                   Append(compareCalls, [body |-> CompareBody, held |-> estimates])
    /\ UNCHANGED <<pickup, dropoff, passengerCount, estimates, pickupOptions,
                   dropoffOptions, snackbar, pickupCalls, dropoffCalls>>

comparePricesResolved(i, data) ==
    /\ i \in DOMAIN compareCalls
    /\ data \in CompareResults(compareCalls[i].body)
    /\ estimates' = data
    /\ loading' = FALSE
    /\ compareCalls' = RemoveAt(compareCalls, i)
    /\ UNCHANGED <<pickup, dropoff, passengerCount, pickupOptions, dropoffOptions,
                   snackbar, errors, pickupCalls, dropoffCalls>>

\* mutant of comparePricesRejected: the failure path clears the results
comparePricesRejected_Clears(i) ==
    /\ i \in DOMAIN compareCalls
    /\ snackbar' = ErrorNotice(CompareFailed)
    /\ estimates' = << >>
    /\ loading' = FALSE
    /\ compareCalls' = RemoveAt(compareCalls, i)
    /\ UNCHANGED <<pickup, dropoff, passengerCount, pickupOptions,
                   dropoffOptions, errors, pickupCalls, dropoffCalls>>

\* mutant of comparePricesRejected: setLoading(false) only on the success path
comparePricesRejected_StaysBusy(i) ==
    /\ i \in DOMAIN compareCalls
    /\ snackbar' = ErrorNotice(CompareFailed)
    /\ compareCalls' = RemoveAt(compareCalls, i)
    /\ UNCHANGED <<pickup, dropoff, passengerCount, estimates, loading, pickupOptions,
                   dropoffOptions, errors, pickupCalls, dropoffCalls>>

comparePricesRejected(i) ==
    /\ i \in DOMAIN compareCalls
    /\ snackbar' = ErrorNotice(CompareFailed)
    /\ loading' = FALSE
    /\ compareCalls' = RemoveAt(compareCalls, i)
    /\ UNCHANGED <<pickup, dropoff, passengerCount, estimates, pickupOptions,
                   dropoffOptions, errors, pickupCalls, dropoffCalls>>

(***************************************************************************)
(* Route tracking: phone numbers and prices as the code reads them.        *)
(***************************************************************************)
DigitChars == <<"0", "1", "2", "3", "4", "5", "6", "7", "8", "9">>
Digits == {DigitChars[k] : k \in DOMAIN DigitChars}
DigitValue(c) == (CHOOSE k \in DOMAIN DigitChars : DigitChars[k] = c) - 1
Rep(n, c) == [k \in 1..n |-> c]

\* /^\+[1-9]\d{10,14}$/
MinMoreDigits == 10
MaxMoreDigits == 14
MatchesE164(p) ==
    /\ Len(p) >= 2
    /\ p[1] = "+"
    /\ p[2] \in Digits \ {"0"}
    /\ Len(p) - 2 >= MinMoreDigits
    /\ Len(p) - 2 <= MaxMoreDigits
    /\ \A k \in 3..Len(p) : p[k] \in Digits

\* phoneNumber.startsWith('+') ? phoneNumber : `+${phoneNumber}`
FormatNumber(p) == IF p # EmptyText /\ p[1] = "+" THEN p ELSE <<"+">> \o p

\* encodeURIComponent on the characters a phone field holds, and the
\* decoding of the path segment by the backend
RECURSIVE EncodeURIComponent(_)
EncodeURIComponent(p) ==
    IF p = EmptyText THEN EmptyText
    ELSE (IF Head(p) = "+" THEN <<"%", "2", "B">> ELSE <<Head(p)>>)
             \o EncodeURIComponent(Tail(p))
RECURSIVE DecodeURIComponent(_)
DecodeURIComponent(u) ==
    IF u = EmptyText THEN EmptyText
    ELSE IF Len(u) >= 3 /\ SubSeq(u, 1, 3) = <<"%", "2", "B">>
         THEN <<"+">> \o DecodeURIComponent(SubSeq(u, 4, Len(u)))
         ELSE <<Head(u)>> \o DecodeURIComponent(Tail(u))

\* the values typed into the phone field: the two ends of the accepted
\* range, and one value for each way of missing it
PhoneA == <<"+", "1">> \o Rep(10, "5")
PhoneB == <<"+", "4">> \o Rep(14, "2")
PhoneNoPlus == Tail(PhoneA)
PhoneShort == <<"+", "1">> \o Rep(9, "5")
PhoneLong == <<"+", "4">> \o Rep(15, "2")
PhoneZero == <<"+", "0">> \o Rep(10, "5")
PhoneLetter == <<"+", "1">> \o Rep(9, "5") \o <<"x">>
PhoneInputs == {EmptyText, PhoneA, PhoneB, PhoneNoPlus, PhoneShort, PhoneLong,
                PhoneZero, PhoneLetter}

\* String.prototype.replace with a string pattern: the first occurrence only
ReplaceFirst(s, c) ==
    IF \E k \in DOMAIN s : s[k] = c
    THEN RemoveAt(s, CHOOSE k \in DOMAIN s : s[k] = c /\ \A j \in 1..(k - 1) : s[j] # c)
    ELSE s

\* parseFloat on unsigned decimal text: the longest prefix digits[.digits];
\* the value is mantissa / 10^scale with no trailing zero, or NaN
NaN == [nan |-> TRUE, mantissa |-> 0, scale |-> 0]
RECURSIVE DigitRun(_)
DigitRun(s) ==
    IF s # EmptyText /\ Head(s) \in Digits THEN 1 + DigitRun(Tail(s)) ELSE 0
RECURSIVE DecimalValue(_)
DecimalValue(s) ==
    IF s = EmptyText THEN 0
    ELSE 10 * DecimalValue(SubSeq(s, 1, Len(s) - 1)) + DigitValue(s[Len(s)])
RECURSIVE Normalize(_, _)
Normalize(m, e) ==
    IF e > 0 /\ m % 10 = 0 THEN Normalize(m \div 10, e - 1)
    ELSE [nan |-> FALSE, mantissa |-> m, scale |-> e]
ParseFloat(s) ==
    LET n == DigitRun(s)
        rest == SubSeq(s, n + 1, Len(s))
        f == IF rest # EmptyText /\ Head(rest) = "." THEN DigitRun(Tail(rest)) ELSE 0
    IN IF n = 0 /\ f = 0 THEN NaN
       ELSE Normalize(DecimalValue(SubSeq(s, 1, n) \o SubSeq(rest, 2, f + 1)), f)

(***************************************************************************)
(* The backend's tracked routes (behind /track-route and /tracked-routes). *)
(* A request in flight is "sent" until the backend has handled it; its     *)
(* response then travels back and may arrive after later ones.             *)
(***************************************************************************)
Sent == [state |-> "sent", data |-> << >>]
Ok(data) == [state |-> "ok", data |-> data]
NotFound == [state |-> "error", data |-> << >>]

RECURSIVE ById(_)
ById(S) ==
    IF S = {} THEN << >>
    ELSE LET r == CHOOSE x \in S : \A y \in S : x.id <= y.id
         IN <<r>> \o ById(S \ {r})

Range(s) == {s[k] : k \in DOMAIN s}

\* a route left by an earlier session
StoredRoute ==
    [id |-> 1, pickup |-> <<"a">>, dropoff |-> <<"a", "a">>, passenger_count |-> 1,
     phone_number |-> PhoneA, target_price |-> ParseFloat(<<"9">>), is_active |-> TRUE]

backendTrackRoute(i) ==
    /\ i \in DOMAIN trackCalls
    /\ trackCalls[i].resp = Sent
    /\ nextRouteId <= MaxRoutes
    /\ LET b == trackCalls[i].body
           r == [id |-> nextRouteId, pickup |-> b.pickup_address,
                 dropoff |-> b.dropoff_address, passenger_count |-> b.passenger_count,
                 phone_number |-> b.phone_number, target_price |-> b.target_price,
                 is_active |-> TRUE]
       IN /\ routes' = routes \cup {r}
          /\ trackCalls' = [trackCalls EXCEPT ![i].resp = Ok(<<r>>)]
    /\ nextRouteId' = nextRouteId + 1
    /\ UNCHANGED <<phoneNumber, targetPrice, trackedRoutes, showTrackedRoutes,
                   listCalls, deleteCalls,
                   passengerCount, estimates, snackbar>>

backendTrackedRoutes(i) ==
    /\ i \in DOMAIN listCalls
    /\ listCalls[i].resp = Sent
    /\ LET number == DecodeURIComponent(listCalls[i].number)
       IN listCalls' = [listCalls EXCEPT
              ![i].resp = Ok(ById({r \in routes : r.phone_number = number}))]
    /\ UNCHANGED <<phoneNumber, targetPrice, trackedRoutes, showTrackedRoutes,
                   trackCalls, deleteCalls, routes, nextRouteId,
                   passengerCount, estimates, snackbar>>

backendDeleteRoute(i) ==
    /\ i \in DOMAIN deleteCalls
    /\ deleteCalls[i].resp = Sent
    /\ routes' = {r \in routes : r.id # deleteCalls[i].id}
    /\ deleteCalls' = [deleteCalls EXCEPT ![i].resp =
           IF \E r \in routes : r.id = deleteCalls[i].id THEN Ok(<< >>) ELSE NotFound]
    /\ UNCHANGED <<phoneNumber, targetPrice, trackedRoutes, showTrackedRoutes,
                   trackCalls, listCalls, nextRouteId,
                   passengerCount, estimates, snackbar>>

(***************************************************************************)
(* Route tracking: state after the first render.                           *)
(***************************************************************************)
NoTargetPrice == [empty |-> TRUE, value |-> 0]          \* ''
TargetPrice(n) == [empty |-> FALSE, value |-> n]        \* Number(e.target.value)
TargetInputs == {NoTargetPrice, TargetPrice(5)}

InitTracking ==
    /\ phoneNumber = EmptyText
    /\ targetPrice = NoTargetPrice
    /\ trackedRoutes = << >>
    /\ showTrackedRoutes = FALSE
    /\ trackCalls = << >>
    /\ listCalls = << >>
    /\ deleteCalls = << >>
    /\ routes = {StoredRoute}
    /\ nextRouteId = StoredRoute.id + 1

TrackInFlight == Len(trackCalls) + Len(listCalls) + Len(deleteCalls)

InvalidPhone ==
    "Please enter a valid phone number in E.164 format (e.g., +1XXXXXXXXXX)"
TrackingStarted ==
    "Route tracking started! We'll notify you when the price drops below your target."
TrackingFailed == "Failed to start route tracking"
ListFailed ==
    "Failed to fetch tracked routes. Please make sure your phone number is in E.164 format (+1XXXXXXXXXX)"
DeleteDone == "Route tracking stopped and deleted"
DeleteFailed == "Failed to delete tracked route"

\* fetchTrackedRoutes with the format check of trackRoute in front of the request
fetchTrackedRoutes_Validates(p) ==
    IF ~MatchesE164(p)
    THEN UNCHANGED listCalls
    ELSE listCalls' = Append(listCalls,
             [number |-> EncodeURIComponent(FormatNumber(p)), resp |-> Sent])

(***************************************************************************)
(* fetchTrackedRoutes, as called with the phoneNumber of the render whose  *)
(* closure makes the call.                                                 *)
(***************************************************************************)
fetchTrackedRoutes(p) ==
    IF p = EmptyText
    THEN UNCHANGED listCalls
    ELSE listCalls' = Append(listCalls,
             [number |-> EncodeURIComponent(FormatNumber(p)), resp |-> Sent])

fetchTrackedRoutesResolved(i) ==
    /\ i \in DOMAIN listCalls
    /\ listCalls[i].resp.state = "ok"
    /\ trackedRoutes' = listCalls[i].resp.data
    /\ listCalls' = RemoveAt(listCalls, i)
    /\ UNCHANGED <<phoneNumber, targetPrice, showTrackedRoutes, trackCalls,
                   deleteCalls, routes, nextRouteId,
                   passengerCount, estimates, snackbar>>

\* fetchTrackedRoutes whose catch clause also empties the list
fetchTrackedRoutesRejected_Clears(i) ==
    /\ i \in DOMAIN listCalls
    /\ snackbar' = ErrorNotice(ListFailed)
    /\ trackedRoutes' = << >>
    /\ listCalls' = RemoveAt(listCalls, i)
    /\ UNCHANGED <<phoneNumber, targetPrice, showTrackedRoutes,
                   trackCalls, deleteCalls, routes, nextRouteId,
                   passengerCount, estimates>>

\* a transport failure can strike before or after the backend handled the request
fetchTrackedRoutesRejected(i) ==
    /\ i \in DOMAIN listCalls
    /\ snackbar' = ErrorNotice(ListFailed)
    /\ listCalls' = RemoveAt(listCalls, i)
    /\ UNCHANGED <<phoneNumber, targetPrice, trackedRoutes, showTrackedRoutes,
                   trackCalls, deleteCalls, routes, nextRouteId,
                   passengerCount, estimates>>

(***************************************************************************)
(* The phone, target price and Show Tracked Routes controls, each followed *)
(* by the useEffect on [phoneNumber, showTrackedRoutes].                   *)
(***************************************************************************)
setPhoneNumber(newValue) ==
    /\ newValue # phoneNumber
    /\ phoneNumber' = newValue
    /\ IF newValue # EmptyText /\ showTrackedRoutes
       THEN TrackInFlight < MaxInFlight /\ fetchTrackedRoutes(newValue)
       ELSE UNCHANGED listCalls
    /\ UNCHANGED <<targetPrice, trackedRoutes, showTrackedRoutes, trackCalls,
                   deleteCalls, routes, nextRouteId,
                   passengerCount, estimates, snackbar>>

setTargetPrice(newValue) ==
    /\ newValue # targetPrice
    /\ targetPrice' = newValue
    /\ UNCHANGED <<phoneNumber, trackedRoutes, showTrackedRoutes, trackCalls, listCalls,
                   deleteCalls, routes, nextRouteId,
                   passengerCount, estimates, snackbar>>

toggleShowTrackedRoutes ==
    /\ showTrackedRoutes' = ~showTrackedRoutes
    /\ IF phoneNumber # EmptyText /\ ~showTrackedRoutes
       THEN TrackInFlight < MaxInFlight /\ fetchTrackedRoutes(phoneNumber)
       ELSE UNCHANGED listCalls
    /\ UNCHANGED <<phoneNumber, targetPrice, trackedRoutes, trackCalls,
                   deleteCalls, routes, nextRouteId,
                   passengerCount, estimates, snackbar>>

\* the request body of a trackRoute that sends the Target Price field
TrackBody_FromField(estimate) ==
    [pickup_address |-> estimate.pickup,
     dropoff_address |-> estimate.dropoff,
     passenger_count |-> passengerCount,
     phone_number |-> phoneNumber,
     target_price |-> [nan |-> FALSE, mantissa |-> targetPrice.value, scale |-> 0]]

(***************************************************************************)
(* trackRoute (the Track Price button of an estimate card, rendered when   *)
(* phoneNumber and targetPrice are both filled in).                        *)
(***************************************************************************)
TrackBody(estimate) ==
    [pickup_address |-> estimate.pickup,
     dropoff_address |-> estimate.dropoff,
     passenger_count |-> passengerCount,
     phone_number |-> phoneNumber,
     target_price |-> ParseFloat(ReplaceFirst(estimate.price_estimate, "$"))]

\* trackRoute without the format check of its first statement
trackRoute_NoValidation(estimate) ==
    /\ estimate \in Range(estimates)
    /\ phoneNumber # EmptyText /\ targetPrice # NoTargetPrice
    /\ TrackInFlight < MaxInFlight
    /\ trackCalls' = Append(trackCalls, [body |-> TrackBody(estimate), resp |-> Sent])
    /\ UNCHANGED <<phoneNumber, targetPrice, trackedRoutes, showTrackedRoutes,
                   listCalls, deleteCalls, routes, nextRouteId,
                   passengerCount, estimates, snackbar>>

trackRoute(estimate) ==
    /\ estimate \in Range(estimates)
    /\ phoneNumber # EmptyText /\ targetPrice # NoTargetPrice
    /\ IF ~MatchesE164(phoneNumber)
       THEN /\ snackbar' = ErrorNotice(InvalidPhone)
            /\ UNCHANGED trackCalls
       ELSE /\ TrackInFlight < MaxInFlight
            /\ trackCalls' = Append(trackCalls, [body |-> TrackBody(estimate), resp |-> Sent])
            /\ UNCHANGED snackbar
    /\ UNCHANGED <<phoneNumber, targetPrice, trackedRoutes, showTrackedRoutes,
                   listCalls, deleteCalls, routes, nextRouteId,
                   passengerCount, estimates>>

\* trackRoute that ends with the success Notice, without the refresh
trackRouteResolved_NoRefresh(i) ==
    /\ i \in DOMAIN trackCalls
    /\ trackCalls[i].resp.state = "ok"
    /\ snackbar' = SuccessNotice(TrackingStarted)
    /\ trackCalls' = RemoveAt(trackCalls, i)
    /\ UNCHANGED <<phoneNumber, targetPrice, trackedRoutes, showTrackedRoutes,
                   listCalls, deleteCalls, routes, nextRouteId,
                   passengerCount, estimates>>

trackRouteResolved(i) ==
    /\ i \in DOMAIN trackCalls
    /\ trackCalls[i].resp.state = "ok"
    /\ snackbar' = SuccessNotice(TrackingStarted)
    /\ trackCalls' = RemoveAt(trackCalls, i)
    /\ fetchTrackedRoutes(trackCalls[i].body.phone_number)
    /\ UNCHANGED <<phoneNumber, targetPrice, trackedRoutes, showTrackedRoutes,
                   deleteCalls, routes, nextRouteId,
                   passengerCount, estimates>>

trackRouteRejected(i) ==
    /\ i \in DOMAIN trackCalls
    /\ snackbar' = ErrorNotice(TrackingFailed)
    /\ trackCalls' = RemoveAt(trackCalls, i)
    /\ UNCHANGED <<phoneNumber, targetPrice, trackedRoutes, showTrackedRoutes,
                   listCalls, deleteCalls, routes, nextRouteId,
                   passengerCount, estimates>>

(***************************************************************************)
(* deleteTrackedRoute (the Delete button of a listed route; the list is    *)
(* rendered when showTrackedRoutes and phoneNumber hold).                  *)
(***************************************************************************)
deleteTrackedRoute(routeId) ==
    /\ showTrackedRoutes /\ phoneNumber # EmptyText
    /\ \E r \in Range(trackedRoutes) : r.id = routeId
    /\ TrackInFlight < MaxInFlight
    /\ deleteCalls' = Append(deleteCalls,
           [id |-> routeId, phoneNumber |-> phoneNumber, resp |-> Sent])
    /\ UNCHANGED <<phoneNumber, targetPrice, trackedRoutes, showTrackedRoutes,
                   trackCalls, listCalls, routes, nextRouteId,
                   passengerCount, estimates, snackbar>>

deleteTrackedRouteResolved(i) ==
    /\ i \in DOMAIN deleteCalls
    /\ deleteCalls[i].resp.state = "ok"
    /\ snackbar' = SuccessNotice(DeleteDone)
    /\ deleteCalls' = RemoveAt(deleteCalls, i)
    /\ fetchTrackedRoutes(deleteCalls[i].phoneNumber)
    /\ UNCHANGED <<phoneNumber, targetPrice, trackedRoutes, showTrackedRoutes,
                   trackCalls, routes, nextRouteId,
                   passengerCount, estimates>>

deleteTrackedRouteRejected(i) ==
    /\ i \in DOMAIN deleteCalls
    /\ snackbar' = ErrorNotice(DeleteFailed)
    /\ deleteCalls' = RemoveAt(deleteCalls, i)
    /\ UNCHANGED <<phoneNumber, targetPrice, trackedRoutes, showTrackedRoutes,
                   trackCalls, listCalls, routes, nextRouteId,
                   passengerCount, estimates>>

(***************************************************************************)
(* FlightComparison: state after the first render.                         *)
(***************************************************************************)
NoDate == "null"
Dates == {NoDate, "2026-12-01"}
AirportTexts == {EmptyText, <<"a">>, <<"a", "a">>, <<"a", "b">>}

InitFlight ==
    /\ origin = EmptyText
    /\ destination = EmptyText
    /\ departureDate = NoDate
    /\ flightEstimates = << >>
    /\ flightLoading = FALSE
    /\ cityOptions = << >>
    /\ flightSnackbar = NoSnackbar
    /\ flightCalls = << >>
    /\ cityCalls = << >>

FlightInFlight == Len(flightCalls) + Len(cityCalls)

flightSnackbarClose ==
    /\ flightSnackbar.open
    /\ flightSnackbar' = [flightSnackbar EXCEPT !.open = FALSE]
    /\ UNCHANGED <<origin, destination, departureDate, flightEstimates,
                   flightLoading, cityOptions, flightCalls, cityCalls>>

setDepartureDate(newValue) ==
    /\ departureDate' = newValue
    /\ UNCHANGED <<origin, destination, flightEstimates, flightLoading,
                   cityOptions, flightSnackbar, flightCalls, cityCalls>>

(***************************************************************************)
(* handleCitySearch and the two Autocomplete fields that call it.          *)
(***************************************************************************)
FlightMinQueryLen == 2
CitySearchFailed == "Failed to fetch city suggestions. Please try again."

handleCitySearch(query, type) ==
    IF Len(query) >= FlightMinQueryLen
    THEN /\ FlightInFlight < MaxInFlight
         /\ cityCalls' = Append(cityCalls, [query |-> query, type |-> type])
    ELSE UNCHANGED cityCalls

originInputChange(newValue) ==
    /\ origin' = newValue
    /\ handleCitySearch(newValue, "origin")
    /\ UNCHANGED <<destination, departureDate, flightEstimates, flightLoading,
                   cityOptions, flightSnackbar, flightCalls>>

destinationInputChange(newValue) ==
    /\ destination' = newValue
    /\ handleCitySearch(newValue, "destination")
    /\ UNCHANGED <<origin, departureDate, flightEstimates, flightLoading,
                   cityOptions, flightSnackbar, flightCalls>>

handleCitySearchResolved(i) ==
    /\ i \in DOMAIN cityCalls
    /\ cityOptions' = AutocompleteResult(cityCalls[i].query)
    /\ cityCalls' = RemoveAt(cityCalls, i)
    /\ UNCHANGED <<origin, destination, departureDate, flightEstimates,
                   flightLoading, flightSnackbar, flightCalls>>

\* catch: console.error and an error snackbar
handleCitySearchRejected(i) ==
    /\ i \in DOMAIN cityCalls
    /\ flightSnackbar' = ErrorNotice(CitySearchFailed)
    /\ cityCalls' = RemoveAt(cityCalls, i)
    /\ UNCHANGED <<origin, destination, departureDate, flightEstimates,
                   flightLoading, cityOptions, flightCalls>>

(***************************************************************************)
(* handleSearch (the Search Flights button, disabled while loading).       *)
(***************************************************************************)
FieldsRequired == "Please fill in all required fields"
FlightsFailed == "Error: Failed to fetch flight prices"

handleSearch ==
    /\ ~flightLoading
    /\ IF origin = EmptyText \/ destination = EmptyText \/ departureDate = NoDate
       THEN /\ flightSnackbar' = ErrorNotice(FieldsRequired)
            /\ UNCHANGED <<flightLoading, flightCalls>>
       ELSE /\ FlightInFlight < MaxInFlight
            /\ flightLoading' = TRUE
            /\ flightCalls' = Append(flightCalls,
                   [origin |-> origin, destination |-> destination,
                    departure_date |-> departureDate])
            /\ UNCHANGED flightSnackbar
    /\ UNCHANGED <<origin, destination, departureDate, flightEstimates,
                   cityOptions, cityCalls>>

handleSearchResolved(i, data) ==
    /\ i \in DOMAIN flightCalls
    /\ data \in FlightResults(flightCalls[i])
    /\ flightEstimates' = data
    /\ flightLoading' = FALSE
    /\ flightCalls' = RemoveAt(flightCalls, i)
    /\ UNCHANGED <<origin, destination, departureDate, cityOptions,
                   flightSnackbar, cityCalls>>

handleSearchRejected(i) ==
    /\ i \in DOMAIN flightCalls
    /\ flightSnackbar' = ErrorNotice(FlightsFailed)
    /\ flightLoading' = FALSE
    /\ flightCalls' = RemoveAt(flightCalls, i)
    /\ UNCHANGED <<origin, destination, departureDate, flightEstimates,
                   cityOptions, cityCalls>>

(***************************************************************************)
(* The estimate card (its Paper onClick) and the window it acts on.  A     *)
(* setTimeout callback runs once, at some time not before its delay has    *)
(* passed.  The Track Price button sits inside the card and its handler    *)
(* does not stop the click, which goes on to the card's handler.           *)
(***************************************************************************)
GraceMs == 1000
\* the clock advances by half a grace window at a time
TickMs == GraceMs \div 2
MaxClock == 2000
MaxClicks == 2

InitNav ==
    /\ navigations = << >>
    /\ timers = {}
    /\ nextTimer = 1
    /\ now = 0

\* the same handler with the fallback scheduled without a delay
estimateCardClick_NoGrace(estimate) ==
    /\ estimate \in Range(estimates)
    /\ nextTimer <= MaxClicks
    /\ navigations' = Append(navigations,
           [url |-> estimate.app_url, at |-> now, timer |-> nextTimer])
    /\ timers' = timers \cup {[id |-> nextTimer, due |-> now, url |-> estimate.web_url]}
    /\ nextTimer' = nextTimer + 1
    /\ UNCHANGED now

estimateCardClick(estimate) ==
    /\ estimate \in Range(estimates)
    /\ nextTimer <= MaxClicks
    /\ navigations' = Append(navigations,
           [url |-> estimate.app_url, at |-> now, timer |-> nextTimer])
    /\ timers' = timers \cup
           {[id |-> nextTimer, due |-> now + GraceMs, url |-> estimate.web_url]}
    /\ nextTimer' = nextTimer + 1
    /\ UNCHANGED now

\* a click on the card outside the Track Price button
selectEstimate(estimate) ==
    /\ estimateCardClick(estimate)
    /\ UNCHANGED <<trackVars, passengerCount, estimates, snackbar>>

\* a click on the Track Price button: the button's handler, then the card's
trackPriceClick(estimate) ==
    /\ trackRoute(estimate)
    /\ estimateCardClick(estimate)

timerFires(t) ==
    /\ t \in timers
    /\ now >= t.due
    /\ navigations' = Append(navigations, [url |-> t.url, at |-> now, timer |-> t.id])
    /\ timers' = timers \ {t}
    /\ UNCHANGED <<nextTimer, now>>
    /\ UNCHANGED <<trackVars, passengerCount, estimates, snackbar>>

tick ==
    /\ now + TickMs <= MaxClock
    /\ now' = now + TickMs
    /\ UNCHANGED <<navigations, timers, nextTimer>>
    /\ UNCHANGED <<trackVars, passengerCount, estimates, snackbar>>

(***************************************************************************)
(* History.  Of the autocomplete requests of the cab tab: per field, the   *)
(* query of the request issued last and what became of that request.  The  *)
(* request issued last is the last element of the field's sequence for as  *)
(* long as its status is "pending".                                        *)
(***************************************************************************)
NoRequest == [query |-> EmptyText, status |-> "none"]
NoListRequest == [status |-> "none", data |-> << >>]
InitLatest ==
    /\ latest = [f \in {"pickup", "dropoff"} |-> NoRequest]
    /\ latestList = NoListRequest
    /\ listCause = << >>
    /\ removed = {}

Issued(field, query) ==
    latest' = IF Len(query) >= CabMinQueryLen
              THEN [latest EXCEPT ![field] = [query |-> query, status |-> "pending"]]
              ELSE latest
Settled(field, calls, i, outcome) ==
    latest' = IF i = Len(calls) /\ latest[field].status = "pending"
              THEN [latest EXCEPT ![field].status = outcome]
              ELSE latest

(***************************************************************************)
(* Specifications.                                                         *)
(***************************************************************************)
Init == InitCab /\ InitTracking /\ InitFlight /\ InitLatest /\ InitNav

Cab(A) == A /\ UNCHANGED <<flightVars, trackVars, histVars, navVars>>
Flight(A) == A /\ UNCHANGED <<cabVars, trackVars, histVars, navVars>>
Track(A) == A /\ UNCHANGED <<quoteVars, flightVars, histVars, navVars>>

\* the cab tab: location fields, suggestions and comparePrices
NextCab ==
    \/ \E v \in Texts : Cab(pickupInputChange(v))
    \/ \E v \in Texts : Cab(dropoffInputChange(v))
    \/ \E i \in DOMAIN pickupCalls : Cab(pickupSuggestResolved(i))
    \/ \E i \in DOMAIN pickupCalls : Cab(pickupSuggestRejected(i))
    \/ \E i \in DOMAIN dropoffCalls : Cab(dropoffSuggestResolved(i))
    \/ \E i \in DOMAIN dropoffCalls : Cab(dropoffSuggestRejected(i))
    \/ Cab(comparePrices)
    \/ \E i \in DOMAIN compareCalls : \E data \in CompareResults(compareCalls[i].body) :
          Cab(comparePricesResolved(i, data))
    \/ \E i \in DOMAIN compareCalls : Cab(comparePricesRejected(i))
    \/ Cab(handleSnackbarClose)

SpecCab == Init /\ [][NextCab]_vars

\* the flights tab
NextFlight ==
    \/ \E v \in AirportTexts : Flight(originInputChange(v))
    \/ \E v \in AirportTexts : Flight(destinationInputChange(v))
    \/ \E d \in Dates : Flight(setDepartureDate(d))
    \/ \E i \in DOMAIN cityCalls : Flight(handleCitySearchResolved(i))
    \/ \E i \in DOMAIN cityCalls : Flight(handleCitySearchRejected(i))
    \/ Flight(handleSearch)
    \/ \E i \in DOMAIN flightCalls : \E data \in FlightResults(flightCalls[i]) :
          Flight(handleSearchResolved(i, data))
    \/ \E i \in DOMAIN flightCalls : Flight(handleSearchRejected(i))
    \/ Flight(flightSnackbarClose)

SpecFlight == Init /\ [][NextFlight]_vars

\* the suggestions of the cab tab, with their history
NextSuggest ==
    \/ \E v \in Texts :
          pickupInputChange(v) /\ Issued("pickup", v) /\ UNCHANGED <<flightVars, trackVars, latestList, listCause, removed, navVars>>
    \/ \E v \in Texts :
          dropoffInputChange(v) /\ Issued("dropoff", v) /\ UNCHANGED <<flightVars, trackVars, latestList, listCause, removed, navVars>>
    \/ \E i \in DOMAIN pickupCalls :
          /\ pickupSuggestResolved(i)
          /\ Settled("pickup", pickupCalls, i, "ok") /\ UNCHANGED <<flightVars, trackVars, latestList, listCause, removed, navVars>>
    \/ \E i \in DOMAIN pickupCalls :
          /\ pickupSuggestRejected(i)
          /\ Settled("pickup", pickupCalls, i, "failed") /\ UNCHANGED <<flightVars, trackVars, latestList, listCause, removed, navVars>>
    \/ \E i \in DOMAIN dropoffCalls :
          /\ dropoffSuggestResolved(i)
          /\ Settled("dropoff", dropoffCalls, i, "ok") /\ UNCHANGED <<flightVars, trackVars, latestList, listCause, removed, navVars>>
    \/ \E i \in DOMAIN dropoffCalls :
          /\ dropoffSuggestRejected(i)
          /\ Settled("dropoff", dropoffCalls, i, "failed") /\ UNCHANGED <<flightVars, trackVars, latestList, listCause, removed, navVars>>

SpecSuggest == Init /\ [][NextSuggest]_vars

\* both compare operations on their own; the form fields hold any values the
\* user may have typed (the suggestion requests of those edits have settled:
\* a failed cab suggestion leaves no trace, and a flight field shorter than
\* FlightMinQueryLen issues none), and every request eventually settles
InitBusy ==
    /\ pickup \in Texts /\ dropoff \in Texts
    /\ passengerCount = 1 /\ estimates = << >> /\ loading = FALSE
    /\ pickupOptions = << >> /\ dropoffOptions = << >>
    /\ snackbar = NoSnackbar /\ errors = NoErrors
    /\ compareCalls = << >> /\ pickupCalls = << >> /\ dropoffCalls = << >>
    /\ origin \in {EmptyText, <<"a">>} /\ destination \in {EmptyText, <<"a">>}
    /\ departureDate \in Dates
    /\ flightEstimates = << >> /\ flightLoading = FALSE /\ cityOptions = << >>
    /\ flightSnackbar = NoSnackbar /\ flightCalls = << >> /\ cityCalls = << >>
    /\ InitTracking
    /\ InitLatest /\ InitNav

CompareSettles ==
    \/ \E i \in DOMAIN compareCalls : \E data \in CompareResults(compareCalls[i].body) :
          Cab(comparePricesResolved(i, data))
    \/ \E i \in DOMAIN compareCalls : Cab(comparePricesRejected(i))

SearchSettles ==
    \/ \E i \in DOMAIN flightCalls : \E data \in FlightResults(flightCalls[i]) :
          Flight(handleSearchResolved(i, data))
    \/ \E i \in DOMAIN flightCalls : Flight(handleSearchRejected(i))

NextBusy ==
    \/ Cab(comparePrices)
    \/ CompareSettles
    \/ Cab(handleSnackbarClose)
    \/ Flight(handleSearch)
    \/ SearchSettles
    \/ Flight(flightSnackbarClose)

SpecBusy ==
    InitBusy /\ [][NextBusy]_vars /\ WF_vars(CompareSettles) /\ WF_vars(SearchSettles)

\* creating a tracked route and listing, for each value the phone field may
\* hold (typed while the panel is hidden) and with a compare result on display
InitPhone ==
    /\ pickup = <<"a">> /\ dropoff = <<"a", "a">>
    /\ passengerCount = 1
    /\ estimates \in CompareResults([pickup_address |-> <<"a">>,
                                     dropoff_address |-> <<"a", "a">>]) \ {<< >>}
    /\ loading = FALSE
    /\ pickupOptions = << >> /\ dropoffOptions = << >>
    /\ snackbar = NoSnackbar /\ errors = NoErrors
    /\ compareCalls = << >> /\ pickupCalls = << >> /\ dropoffCalls = << >>
    /\ phoneNumber \in PhoneInputs
    /\ targetPrice = NoTargetPrice
    /\ trackedRoutes = << >>
    /\ showTrackedRoutes = FALSE
    /\ trackCalls = << >> /\ listCalls = << >> /\ deleteCalls = << >>
    /\ routes = {StoredRoute}
    /\ nextRouteId = StoredRoute.id + 1
    /\ InitFlight /\ InitLatest /\ InitNav

NextPhone ==
    \/ \E v \in TargetInputs : Track(setTargetPrice(v))
    \/ Track(toggleShowTrackedRoutes)
    \/ \E e \in Range(estimates) : Track(trackRoute(e))
    \/ \E i \in DOMAIN trackCalls : Track(backendTrackRoute(i))
    \/ \E i \in DOMAIN trackCalls : Track(trackRouteResolved(i))
    \/ \E i \in DOMAIN trackCalls : Track(trackRouteRejected(i))
    \/ \E i \in DOMAIN listCalls : Track(backendTrackedRoutes(i))
    \/ \E i \in DOMAIN listCalls : Track(fetchTrackedRoutesResolved(i))
    \/ \E i \in DOMAIN listCalls : Track(fetchTrackedRoutesRejected(i))

SpecPhone == InitPhone /\ [][NextPhone]_vars

\* listing and deleting tracked routes, with their history
ListPhones == {EmptyText, PhoneA, PhoneB, PhoneNoPlus}

List(A, H) == A /\ H /\ UNCHANGED <<quoteVars, flightVars, latest, navVars>>

NoListHistory == UNCHANGED <<latestList, listCause, removed>>
ListIssued(cause) ==
    /\ IF Len(listCalls') > Len(listCalls)
       THEN /\ latestList' = [status |-> "pending", data |-> << >>]
            /\ listCause' = Append(listCause, cause)
       ELSE UNCHANGED <<latestList, listCause>>
    /\ UNCHANGED removed
ListSettled(i, outcome, data) ==
    /\ latestList' = IF i = Len(listCalls) /\ latestList.status = "pending"
                     THEN [status |-> outcome, data |-> data]
                     ELSE latestList
    /\ listCause' = RemoveAt(listCause, i)
    /\ removed' = IF outcome = "ok" /\ listCause[i] # 0
                  THEN removed \cup {listCause[i]} ELSE removed

NextList ==
    \/ \E v \in ListPhones : List(setPhoneNumber(v), ListIssued(0))
    \/ List(toggleShowTrackedRoutes, ListIssued(0))
    \/ \E i \in DOMAIN listCalls : List(backendTrackedRoutes(i), NoListHistory)
    \/ \E i \in DOMAIN listCalls :
          List(fetchTrackedRoutesResolved(i), ListSettled(i, "ok", listCalls[i].resp.data))
    \/ \E i \in DOMAIN listCalls :
          List(fetchTrackedRoutesRejected(i), ListSettled(i, "failed", << >>))
    \/ \E id \in 1..MaxRoutes : List(deleteTrackedRoute(id), NoListHistory)
    \/ \E i \in DOMAIN deleteCalls : List(backendDeleteRoute(i), NoListHistory)
    \/ \E i \in DOMAIN deleteCalls :
          List(deleteTrackedRouteResolved(i), ListIssued(deleteCalls[i].id))
    \/ \E i \in DOMAIN deleteCalls : List(deleteTrackedRouteRejected(i), NoListHistory)

SpecList == Init /\ [][NextList]_vars

\* every operation of the route tracking (create, list, remove) once the
\* form is filled in: one estimate on display, a phone number that create
\* accepts, a target price
InitTracker ==
    /\ pickup = <<"a">> /\ dropoff = <<"a", "a">>
    /\ passengerCount = 1
    /\ estimates = <<Quote("uber", UberPrice, [pickup_address |-> <<"a">>,
                                               dropoff_address |-> <<"a", "a">>])>>
    /\ loading = FALSE
    /\ pickupOptions = << >> /\ dropoffOptions = << >>
    /\ snackbar = NoSnackbar /\ errors = NoErrors
    /\ compareCalls = << >> /\ pickupCalls = << >> /\ dropoffCalls = << >>
    /\ phoneNumber = PhoneA
    /\ targetPrice = TargetPrice(5)
    /\ trackedRoutes = << >>
    /\ showTrackedRoutes = FALSE
    /\ trackCalls = << >> /\ listCalls = << >> /\ deleteCalls = << >>
    /\ routes = {StoredRoute}
    /\ nextRouteId = StoredRoute.id + 1
    /\ InitFlight /\ InitLatest /\ InitNav

NextTracker ==
    \/ Track(toggleShowTrackedRoutes)
    \/ \E e \in Range(estimates) : Track(trackRoute(e))
    \/ \E i \in DOMAIN trackCalls : Track(backendTrackRoute(i))
    \/ \E i \in DOMAIN trackCalls : Track(trackRouteResolved(i))
    \/ \E i \in DOMAIN trackCalls : Track(trackRouteRejected(i))
    \/ \E i \in DOMAIN listCalls : Track(backendTrackedRoutes(i))
    \/ \E i \in DOMAIN listCalls : Track(fetchTrackedRoutesResolved(i))
    \/ \E i \in DOMAIN listCalls : Track(fetchTrackedRoutesRejected(i))
    \/ \E id \in 1..MaxRoutes : Track(deleteTrackedRoute(id))
    \/ \E i \in DOMAIN deleteCalls : Track(backendDeleteRoute(i))
    \/ \E i \in DOMAIN deleteCalls : Track(deleteTrackedRouteResolved(i))
    \/ \E i \in DOMAIN deleteCalls : Track(deleteTrackedRouteRejected(i))

SpecTracker == InitTracker /\ [][NextTracker]_vars

\* create and list while the phone field is edited, with the history of what
\* each list request in flight was issued for: the route whose create
\* triggered it (its id at the backend and the request body), or NoCreate
CreatePhones == {PhoneA, PhoneB}
NoCreate == [id |-> 0, body |-> << >>]
Created(i) == [id |-> trackCalls[i].resp.data[1].id, body |-> trackCalls[i].body]

Create(A, H) ==
    A /\ H /\ UNCHANGED <<quoteVars, flightVars, latest, latestList, removed, navVars>>

RefreshIssued(cause) ==
    listCause' = IF Len(listCalls') > Len(listCalls)
                 THEN Append(listCause, cause) ELSE listCause
RefreshSettled(i) == listCause' = RemoveAt(listCause, i)

NextCreate ==
    \/ \E v \in CreatePhones : Create(setPhoneNumber(v), RefreshIssued(NoCreate))
    \/ Create(toggleShowTrackedRoutes, RefreshIssued(NoCreate))
    \/ \E e \in Range(estimates) : Create(trackRoute(e), UNCHANGED listCause)
    \/ \E i \in DOMAIN trackCalls : Create(backendTrackRoute(i), UNCHANGED listCause)
    \/ \E i \in DOMAIN trackCalls : Create(trackRouteResolved(i), RefreshIssued(Created(i)))
    \/ \E i \in DOMAIN trackCalls : Create(trackRouteRejected(i), UNCHANGED listCause)
    \/ \E i \in DOMAIN listCalls : Create(backendTrackedRoutes(i), UNCHANGED listCause)
    \/ \E i \in DOMAIN listCalls : Create(fetchTrackedRoutesResolved(i), RefreshSettled(i))
    \/ \E i \in DOMAIN listCalls : Create(fetchTrackedRoutesRejected(i), RefreshSettled(i))

SpecCreate == InitTracker /\ [][NextCreate]_vars

\* create under different values of the Target Price field
TargetValues == {NoTargetPrice, TargetPrice(5), TargetPrice(7)}
InitTarget == InitPhone /\ phoneNumber = PhoneA

NextTarget ==
    \/ \E v \in TargetValues : Track(setTargetPrice(v))
    \/ \E e \in Range(estimates) : Track(trackRoute(e))
    \/ \E i \in DOMAIN trackCalls : Track(backendTrackRoute(i))
    \/ \E i \in DOMAIN trackCalls : Track(trackRouteResolved(i))
    \/ \E i \in DOMAIN trackCalls : Track(trackRouteRejected(i))
    \/ \E i \in DOMAIN listCalls : Track(backendTrackedRoutes(i))
    \/ \E i \in DOMAIN listCalls : Track(fetchTrackedRoutesResolved(i))
    \/ \E i \in DOMAIN listCalls : Track(fetchTrackedRoutesRejected(i))

SpecTarget == InitTarget /\ [][NextTarget]_vars

\* the estimate cards: two estimates on display and the tracking form filled in
InitSelect ==
    /\ pickup = <<"a">> /\ dropoff = <<"a", "a">>
    /\ passengerCount = 1
    /\ estimates = <<Quote("lyft", LyftPrice, [pickup_address |-> <<"a">>,
                                               dropoff_address |-> <<"a", "a">>]),
                     Quote("uber", UberPrice, [pickup_address |-> <<"a">>,
                                               dropoff_address |-> <<"a", "a">>])>>
    /\ loading = FALSE
    /\ pickupOptions = << >> /\ dropoffOptions = << >>
    /\ snackbar = NoSnackbar /\ errors = NoErrors
    /\ compareCalls = << >> /\ pickupCalls = << >> /\ dropoffCalls = << >>
    /\ phoneNumber = PhoneA
    /\ targetPrice = TargetPrice(5)
    /\ trackedRoutes = << >>
    /\ showTrackedRoutes = FALSE
    /\ trackCalls = << >> /\ listCalls = << >> /\ deleteCalls = << >>
    /\ routes = {StoredRoute}
    /\ nextRouteId = StoredRoute.id + 1
    /\ InitFlight /\ InitLatest /\ InitNav

Select(A) == A /\ UNCHANGED <<quoteVars, flightVars, histVars>>

\* the track-route requests of the clicks stay in flight: the clock covers
\* the first seconds only, and the cards do not read what a response changes
NextSelect ==
    \/ \E e \in Range(estimates) : Select(selectEstimate(e))
    \/ \E e \in Range(estimates) : Select(trackPriceClick(e))
    \/ \E t \in timers : Select(timerFires(t))
    \/ Select(tick)

SpecSelect == InitSelect /\ [][NextSelect]_vars

(***************************************************************************)
(* Properties.                                                             *)
(***************************************************************************)
NoCabRequestIssued ==
    /\ compareCalls' = compareCalls
    /\ pickupCalls' = pickupCalls
    /\ dropoffCalls' = dropoffCalls

\* C2: comparePrices submitted with pickup or dropoff empty records a
\* field-scoped error and stops: no request is issued, loading stays clear and
\* the estimates are unchanged; with only pickup empty the error is for
\* pickup alone.
C2_EmptyFieldStopsCompare ==
    [][(comparePrices /\ (pickup = EmptyText \/ dropoff = EmptyText)) =>
          /\ errors' # NoErrors
          /\ DOMAIN errors' \subseteq {"pickup", "dropoff"}
          /\ NoCabRequestIssued
          /\ ~loading'
          /\ estimates' = estimates
          /\ (pickup = EmptyText /\ dropoff # EmptyText =>
                 errors' = ("pickup" :> PickupRequired))]_vars

\* C2 witness: compare was submitted with pickup empty and dropoff filled in
C2_Witness ==
    /\ pickup = EmptyText /\ dropoff # EmptyText
    /\ errors = ("pickup" :> PickupRequired)
    /\ ~loading /\ compareCalls = << >>

\* C3: a compare-prices request that fails raises the fixed error notice and
\* leaves the estimates exactly as they were when the request was sent.
C3_FailureKeepsEstimates ==
    [][\A i \in DOMAIN compareCalls : comparePricesRejected(i) =>
          /\ snackbar' = ErrorNotice(CompareFailed)
          /\ estimates' = compareCalls[i].held
          /\ estimates' = estimates]_vars

\* C3 witness: a request failed while estimates of an earlier call were shown
C3_Witness ==
    /\ snackbar = ErrorNotice(CompareFailed)
    /\ estimates # << >>
    /\ ~loading

\* C4: loading is set exactly while a compare request is in flight, in both
\* components, and is always cleared again.
C4_BusyFlagReleased ==
    /\ [](loading <=> compareCalls # << >>)
    /\ [](flightLoading <=> flightCalls # << >>)
    /\ (loading ~> ~loading)
    /\ (flightLoading ~> ~flightLoading)

\* C4 witness: in both components a request failed and the flag is clear
C4_Witness ==
    /\ snackbar = ErrorNotice(CompareFailed) /\ ~loading
    /\ flightSnackbar = ErrorNotice(FlightsFailed) /\ ~flightLoading
    /\ estimates # << >>

\* C5 (as claimed): once no suggestion request of a field is in flight, the
\* field's options are the response to the request issued last (when that
\* request succeeded).
C5_LatestSuggestionWins ==
    /\ (pickupCalls = << >> /\ latest["pickup"].status = "ok") =>
           pickupOptions = AutocompleteResult(latest["pickup"].query)
    /\ (dropoffCalls = << >> /\ latest["dropoff"].status = "ok") =>
           dropoffOptions = AutocompleteResult(latest["dropoff"].query)

\* C9 (as claimed): a failed suggestion request raises no notice and leaves
\* the busy flag, the estimates and the options alone, in both components.
C9_SuggestFailureIsSilent ==
    [][/\ \A i \in DOMAIN pickupCalls : pickupSuggestRejected(i) =>
              UNCHANGED <<snackbar, loading, estimates, pickupOptions>>
       /\ \A i \in DOMAIN dropoffCalls : dropoffSuggestRejected(i) =>
              UNCHANGED <<snackbar, loading, estimates, dropoffOptions>>
       /\ \A i \in DOMAIN cityCalls : handleCitySearchRejected(i) =>
              UNCHANGED <<flightSnackbar, flightLoading, flightEstimates,
                          cityOptions>>]_vars

\* C10 (as claimed): compare submitted with pickup and dropoff both empty
\* records an error for each of the two fields and issues no request.
C10_BothFieldsReported ==
    [][(comparePrices /\ pickup = EmptyText /\ dropoff = EmptyText) =>
          /\ DOMAIN errors' = {"pickup", "dropoff"}
          /\ NoCabRequestIssued]_vars

\* C1: trackRoute issues the POST /track-route request if and only if the
\* phone number matches ^\+[1-9]\d{10,14}$; for every other phone number it
\* raises the invalid-phone Notice, issues no request of any kind and leaves
\* the tracked-route list as it was.
C1_TrackValidatesPhone ==
    [][\A e \in Range(estimates) :
          Track(trackRoute(e)) =>
              IF MatchesE164(phoneNumber)
              THEN /\ Len(trackCalls') = Len(trackCalls) + 1
                   /\ trackCalls'[Len(trackCalls')].body.phone_number = phoneNumber
                   /\ trackCalls'[Len(trackCalls')].resp = Sent
              ELSE /\ snackbar' = ErrorNotice(InvalidPhone)
                   /\ UNCHANGED <<trackCalls, listCalls, deleteCalls, trackedRoutes>>]_vars

C1_Witness ==
    /\ phoneNumber = PhoneNoPlus
    /\ targetPrice # NoTargetPrice
    /\ snackbar = ErrorNotice(InvalidPhone)
    /\ trackCalls = << >> /\ listCalls = << >>

\* C6: once every list response has arrived, the tracked-route list held by
\* the client is the response to the most recently issued list request,
\* whatever order the responses arrived in.
C6_LatestListWins ==
    (listCalls = << >> /\ latestList.status = "ok") => trackedRoutes = latestList.data

\* C7: after deleteTrackedRoute(id) has succeeded and the refresh it triggers
\* has completed, the tracked-route list held by the client never again
\* contains a route with that id.
C7_RemovedStaysRemoved ==
    \A r \in Range(trackedRoutes) : r.id \notin removed

\* C8 as stated: fetchTrackedRoutes issues the GET /tracked-routes request
\* only if the phone number matches ^\+[1-9]\d{10,14}$.
C8_ListValidatesPhone ==
    [][Len(listCalls') > Len(listCalls) => MatchesE164(phoneNumber)]_vars

\* C8 as the code has it: showing the tracked routes issues the GET
\* /tracked-routes request if and only if the phone number is non-empty,
\* whether or not it matches the pattern, for the number with '+' put in
\* front when it does not start with one; an empty phone number issues no
\* request and raises no Notice.
C8_ListQueriesAnyNonEmptyPhone ==
    [][(Track(toggleShowTrackedRoutes) /\ showTrackedRoutes') =>
          /\ snackbar' = snackbar
          /\ IF phoneNumber = EmptyText
             THEN listCalls' = listCalls
             ELSE /\ Len(listCalls') = Len(listCalls) + 1
                  /\ listCalls'[Len(listCalls')].resp = Sent
                  /\ DecodeURIComponent(listCalls'[Len(listCalls')].number)
                         = IF Head(phoneNumber) = "+" THEN phoneNumber
                                                      ELSE <<"+">> \o phoneNumber]_vars

C8_Witness ==
    /\ phoneNumber = PhoneNoPlus
    /\ showTrackedRoutes
    /\ listCalls # << >>
    /\ DecodeURIComponent(listCalls[1].number) = PhoneA
    /\ snackbar = NoSnackbar

\* C15: at most one compare-prices request is in flight at any time, and one
\* is in flight exactly when the busy flag is set.
C15_OneCompareInFlight ==
    /\ Len(compareCalls) <= 1
    /\ loading <=> Len(compareCalls) = 1

C15_Witness ==
    /\ loading
    /\ Len(compareCalls) = 1
    /\ estimates # << >>
    /\ compareCalls[1].held = estimates

\* C11: when a list, create or remove request fails, an error Notice is
\* raised and the tracked-route list is left as it was; a failed create or
\* remove starts no list refresh.
C11_FailureKeepsTrackedRoutes ==
    [][/\ \A i \in DOMAIN listCalls :
             Track(fetchTrackedRoutesRejected(i)) =>
                 /\ snackbar' = ErrorNotice(ListFailed)
                 /\ trackedRoutes' = trackedRoutes
                 /\ Len(listCalls') = Len(listCalls) - 1
       /\ \A i \in DOMAIN trackCalls :
             Track(trackRouteRejected(i)) =>
                 /\ snackbar' = ErrorNotice(TrackingFailed)
                 /\ trackedRoutes' = trackedRoutes
                 /\ listCalls' = listCalls
       /\ \A i \in DOMAIN deleteCalls :
             Track(deleteTrackedRouteRejected(i)) =>
                 /\ snackbar' = ErrorNotice(DeleteFailed)
                 /\ trackedRoutes' = trackedRoutes
                 /\ listCalls' = listCalls]_vars

C11_Witness ==
    /\ snackbar = ErrorNotice(ListFailed)
    /\ trackedRoutes # << >>
    /\ listCalls = << >>

C14_TargetPriceFromEstimate ==
    [][/\ \A e \in Range(estimates) :
             (Track(trackRoute(e)) /\ trackCalls' # trackCalls) =>
                 LET b == trackCalls'[Len(trackCalls')].body
                 IN /\ b = [pickup_address |-> e.pickup,
                            dropoff_address |-> e.dropoff,
                            passenger_count |-> passengerCount,
                            phone_number |-> phoneNumber,
                            target_price |-> ParseFloat(ReplaceFirst(e.price_estimate, "$"))]
                    /\ e.price_estimate = UberPrice =>
                           b.target_price = [nan |-> FALSE, mantissa |-> 235, scale |-> 1]
                    /\ e.price_estimate = LyftPrice =>
                           b.target_price = [nan |-> FALSE, mantissa |-> 9, scale |-> 0]
       /\ \A r \in routes' \ routes :
             \E e \in Range(estimates) :
                r.target_price = ParseFloat(ReplaceFirst(e.price_estimate, "$"))]_vars

\* two requests sent for the same estimate, the second with 7 in the field
C14_Witness ==
    /\ targetPrice = TargetPrice(7)
    /\ Len(trackCalls) = 2
    /\ trackCalls[1].resp # Sent
    /\ trackCalls[2].resp = Sent
    /\ trackCalls[1].body = trackCalls[2].body
    /\ trackCalls[2].body.target_price = [nan |-> FALSE, mantissa |-> 235, scale |-> 1]

\* C12: selecting an estimate navigates to its app URL at once and schedules
\* exactly one navigation to its web URL, which happens no earlier than
\* GraceMs later and never before the app URL navigation of that selection.
C12_AppThenWebAfterGrace ==
    \A id \in 1..(nextTimer - 1) :
       LET apps == {k \in DOMAIN navigations :
                       navigations[k].timer = id /\ navigations[k].url[1] = "app"}
           webs == {k \in DOMAIN navigations :
                       navigations[k].timer = id /\ navigations[k].url[1] = "web"}
           pending == {t \in timers : t.id = id}
       IN /\ Cardinality(apps) = 1
          /\ Cardinality(webs) + Cardinality(pending) = 1
          /\ \A a \in apps :
                /\ \A w \in webs :
                      /\ a < w
                      /\ navigations[w].at >= navigations[a].at + GraceMs
                      /\ navigations[w].url = WebUrl(navigations[a].url[2])
                /\ \A t \in pending :
                      /\ t.due = navigations[a].at + GraceMs
                      /\ t.url = WebUrl(navigations[a].url[2])

\* both estimates selected at different times; both fallbacks have happened
C12_Witness ==
    /\ Len(navigations) = 4
    /\ timers = {}
    /\ navigations[1].url = AppUrl("uber")
    /\ navigations[2].url = AppUrl("lyft")
    /\ navigations[2].at > navigations[1].at
    /\ navigations[3].url = WebUrl("uber")
    /\ navigations[4].url = WebUrl("lyft")
    /\ trackCalls = << >> /\ snackbar = NoSnackbar

\* C16: a click on Track Price starts trackRoute only: a step that sends a
\* track-route request makes no navigation and schedules none.
C16_TrackClickDoesNotNavigate ==
    [][Len(trackCalls') > Len(trackCalls) => UNCHANGED <<navigations, timers>>]_vars
=============================================================================
